---- MODULE Spec2Model ----
(***************************************************************************)
(* Webhook ingestion service: signature verification, classification,     *)
(* two-tier persistence (structured store + record files) and conditional *)
(* forwarding.  A worker runs one HTTP handler at a time, step by step in  *)
(* the order of the statements of app.py.                                  *)
(*   Spec       every input and failure of one deployment, one worker      *)
(*   SpecStore  several handler runs on one store: ingest, reanalyse, list *)
(*   SpecConc   two workers interleaved: ingestions and lists              *)
(*   SpecCalls  verify_signature, forward_to_remote and the classifier     *)
(*              called directly                                            *)
(*   SpecPair   one request sent to /webhook and to /webhook/<source>      *)
(***************************************************************************)
EXTENDS Integers, Sequences, FiniteSets, TLC

\* ------------------------------------------------------------------ bounds
MaxOps == 1          \* handler invocations in one behaviour
MaxClock == 1        \* latest reading of datetime.now(), counted from the first
DigestLen == 2       \* hex digits kept of a digest (64 in hashlib.sha256)
MaxStoreOps == 3     \* handler invocations in one behaviour of the store
MaxConcOps == 2      \* handler invocations in one behaviour of two workers

Workers == {1}
Sources == {"github", "unknown"}

\* ------------------------------------------------------------ JSON payloads
\* A request body is a byte string; JsonLoads is json.loads on it.  An event
\* string is a sequence of words; upper-case words model mixed-case text.
NoValue == [kind |-> "none", hasEvent |-> FALSE, event |-> <<>>, keys |-> {}]
Obj(hasEv, ev, ks) == [kind |-> "object", hasEvent |-> hasEv, event |-> ev, keys |-> ks]
NonObj(k) == [kind |-> k, hasEvent |-> FALSE, event |-> <<>>, keys |-> {}]

RawBodies ==
    { "{\"event\":\"payment_failed\"}",
      "{\"event\":\"job_completed\"}",
      "{\"amount\":5}",
      "[1]",
      "not json" }

JsonLoads(raw) ==
    CASE raw = "{\"event\":\"payment_failed\"}" ->
            [ok |-> TRUE, value |-> Obj(TRUE, <<"payment", "failed">>, {})]
      [] raw = "{\"event\":\"job_completed\"}" ->
            [ok |-> TRUE, value |-> Obj(TRUE, <<"job", "completed">>, {})]
      [] raw = "{\"amount\":5}" ->
            [ok |-> TRUE, value |-> Obj(FALSE, <<>>, {"amount"})]
      [] raw = "[1]" ->
            [ok |-> TRUE, value |-> NonObj("array")]
      [] OTHER ->
            [ok |-> FALSE, value |-> NoValue]

\* request.get_json(): raises (415 or 400, both Exception) unless the content
\* type is JSON and the body parses.
get_json_silent(raw, contentJson) ==
    IF contentJson /\ JsonLoads(raw).ok
    THEN [raised |-> FALSE, value |-> JsonLoads(raw).value]
    ELSE [raised |-> FALSE, value |-> NonObj("null")]
get_json(raw, contentJson) ==
    IF contentJson /\ JsonLoads(raw).ok
    THEN [raised |-> FALSE, value |-> JsonLoads(raw).value]
    ELSE [raised |-> TRUE, value |-> NoValue]

\* ------------------------------------------------------------- signatures
HexDigits == <<"0", "1", "2", "3", "4", "5", "6", "7",
               "8", "9", "a", "b", "c", "d", "e", "f">>
NonAscii == "\\xe9"
IsAscii(sig) == \A i \in 1..Len(sig) : sig[i] # NonAscii

BodyCode(raw) ==
    CASE raw = "{\"event\":\"payment_failed\"}" -> 1
      [] raw = "{\"event\":\"job_completed\"}" -> 2
      [] raw = "{\"amount\":5}" -> 3
      [] raw = "[1]" -> 4
      [] OTHER -> 5
SecretCode(secret) ==
    CASE secret = "default-secret-key" -> 3
      [] OTHER -> 7

\* hmac.new(secret, payload, sha256).hexdigest(): a keyed digest, here a small
\* mixing function of the key and the message, DigestLen hex digits long.
HexDigest(secret, raw) ==
    [i \in 1..DigestLen |->
        HexDigits[((SecretCode(secret) * (BodyCode(raw) + i) + 5 * i * BodyCode(raw)) % 16) + 1]]

\* hmac.compare_digest on two str: TypeError unless both are ASCII.
compare_digest(a, b) ==
    IF IsAscii(a) /\ IsAscii(b)
    THEN [raised |-> FALSE, value |-> (a = b)]
    ELSE [raised |-> TRUE, value |-> FALSE]

verify_signature(payload, signature, secret) ==
    compare_digest(HexDigest(secret, payload), signature)

\* One digit of a digest replaced by the next hex digit.
NextDigit(d) == HexDigits[((CHOOSE k \in 1..16 : HexDigits[k] = d) % 16) + 1]
Tamper(sig) == [sig EXCEPT ![1] = NextDigit(sig[1])]

\* X-Webhook-Signature values offered with a body: absent, correct, one digit
\* off, shorter, and one holding a non-ASCII character.
SignaturesFor(secret, raw) ==
    { <<>>,
      HexDigest(secret, raw),
      Tamper(HexDigest(secret, raw)),
      SubSeq(HexDigest(secret, raw), 1, DigestLen - 1),
      <<NonAscii>> }

\* -------------------------------------------------------------- classifier
\* str.lower() on the words used here.
LowerWord(w) ==
    CASE w = "HIGH" -> "high"
      [] w = "ERROR" -> "error"
      [] w = "Completed" -> "completed"
      [] w = "Payment" -> "payment"
      [] OTHER -> w
Lower(s) == [i \in 1..Len(s) |-> LowerWord(s[i])]

\* JSON null standing where a string is expected.
JsonNull == "<null>"
IsStr(v) == v # JsonNull

\* keyword in event, for any keyword of the group.
ContainsAny(event, keywords) == \E i \in 1..Len(event) : event[i] \in keywords

EmptyText == [tmpl |-> "", arg |-> <<>>]
Text(t, a) == [tmpl |-> t, arg |-> a]

RequiredKeys == {"source", "event_type", "importance", "summary", "actions", "risks"}

NoAnalysis ==
    [keys |-> {}, source |-> "", event_type |-> <<>>, importance |-> "",
     summary |-> EmptyText, actions |-> <<>>, risks |-> <<>>, data_type |-> ""]

\* dict.get(key, default) on an analysis result.
Get(analysis, key, default) == IF key \in analysis.keys THEN analysis[key] ELSE default

\* The if / elif chain on the event (lines 168-188): the first keyword group
\* with a keyword in the event decides.
ByEventBusinessFirst(base, event) ==
    IF ContainsAny(event, {"error", "failure", "critical", "alert"})
    THEN [base EXCEPT !.importance = "high",
                      !.summary = Text("critical event detected: ", event),
                      !.actions = <<"inspect logs immediately", "notify responsible party">>,
                      !.risks = <<"may affect service stability">>]
    ELSE IF ContainsAny(event, {"user", "order", "payment"})
    THEN [base EXCEPT !.importance = "high",
                      !.summary = Text("business-critical event: ", event),
                      !.actions = <<"verify data integrity", "update business state">>]
    ELSE IF ContainsAny(event, {"success", "completed", "finished"})
    THEN [base EXCEPT !.importance = "low",
                      !.summary = Text("event completed normally: ", event),
                      !.actions = <<"log for record">>]
    ELSE [base EXCEPT !.summary = Text("general event: ", event),
                      !.actions = <<"routine handling">>]
ByEvent(base, event) ==
    IF ContainsAny(event, {"error", "failure", "critical", "alert"})
    THEN [base EXCEPT !.importance = "high",
                      !.summary = Text("critical event detected: ", event),
                      !.actions = <<"inspect logs immediately", "notify responsible party">>,
                      !.risks = <<"may affect service stability">>]
    ELSE IF ContainsAny(event, {"success", "completed", "finished"})
    THEN [base EXCEPT !.importance = "low",
                      !.summary = Text("event completed normally: ", event),
                      !.actions = <<"log for record">>]
    ELSE IF ContainsAny(event, {"user", "order", "payment"})
    THEN [base EXCEPT !.importance = "high",
                      !.summary = Text("business-critical event: ", event),
                      !.actions = <<"verify data integrity", "update business state">>]
    ELSE [base EXCEPT !.summary = Text("general event: ", event),
                      !.actions = <<"routine handling">>]

\* The two tests on the keys of the payload (lines 190-195), one after the
\* other: the second assignment of data_type replaces the first.
CheckDataFieldsUserLast(analysis, data) ==
    LET finTagged ==
            IF data.keys \cap {"amount", "price"} # {}
            THEN [analysis EXCEPT !.data_type = "financial", !.keys = @ \cup {"data_type"},
                                  !.risks = Append(@, "financial data involved, requires extra validation")]
            ELSE analysis
    IN  IF data.keys \cap {"user_id", "email"} # {}
        THEN [finTagged EXCEPT !.data_type = "user_related", !.keys = @ \cup {"data_type"}]
        ELSE finTagged
CheckDataFields(analysis, data) ==
    LET userTagged ==
            IF data.keys \cap {"user_id", "email"} # {}
            THEN [analysis EXCEPT !.data_type = "user_related", !.keys = @ \cup {"data_type"}]
            ELSE analysis
    IN  IF data.keys \cap {"amount", "price"} # {}
        THEN [userTagged EXCEPT !.data_type = "financial", !.keys = @ \cup {"data_type"},
                                !.risks = Append(@, "financial data involved, requires extra validation")]
        ELSE userTagged

\* analyze_with_rules on a dict.  data.get('event', '') is the empty string when
\* the key is absent, and the last branch of the chain takes it.
RulesOnObject(data, source) ==
    LET event == Lower(IF data.hasEvent THEN data.event ELSE <<>>)
        base == [keys |-> RequiredKeys,
                 source |-> source,
                 event_type |-> IF data.hasEvent THEN data.event ELSE <<"unknown">>,
                 importance |-> "medium",
                 summary |-> EmptyText,
                 actions |-> <<>>,
                 risks |-> <<>>,
                 data_type |-> ""]
        tagged == CheckDataFields(ByEvent(base, event), data)
    IN  IF tagged.summary = EmptyText
        THEN [tagged EXCEPT !.summary = Text("received webhook event from ", <<source>>)]
        ELSE tagged

\* data.get(...) raises AttributeError when data is not a dict.
analyze_with_rules(data, source) ==
    IF data.kind = "object"
    THEN [raised |-> FALSE, result |-> RulesOnObject(data, source)]
    ELSE [raised |-> TRUE, result |-> NoAnalysis]

\* ---- remote strategy
\* The text of a completion is a sequence of pieces: fence markers, prose and
\* JSON documents.
FenceJson == "<fence json>"
Fence == "<fence>"
Truncated == "<cut>"

RemoteDocs ==
    {"doc:high", "doc:low", "doc:HIGH", "doc:critical", "doc:bare", "doc:null", "doc:array"}

\* json.loads of one document of the remote service.
RemoteDoc(tok) ==
    LET full(imp) == [isObject |-> TRUE,
                      value |-> [keys |-> RequiredKeys, source |-> "remote", event_type |-> <<"remote">>,
                                 importance |-> imp, summary |-> Text("remote summary", <<>>),
                                 actions |-> <<"remote action">>, risks |-> <<>>, data_type |-> ""]]
    IN  CASE tok = "doc:high" -> full("high")
          [] tok = "doc:low" -> full("low")
          [] tok = "doc:HIGH" -> full("HIGH")
          [] tok = "doc:critical" -> full("critical")
          [] tok = "doc:null" -> full(JsonNull)
          [] tok = "doc:bare" ->
                [isObject |-> TRUE,
                 value |-> [NoAnalysis EXCEPT !.keys = {"summary"},
                                              !.summary = Text("remote summary", <<>>)]]
          [] OTHER -> [isObject |-> FALSE, value |-> NoAnalysis]

\* str.find(marker, start): first index >= start of a piece beginning with the
\* marker, 0 when there is none (the bare fence marker also matches the start
\* of the json fence marker).
Find(text, markers, start) ==
    IF \E i \in start..Len(text) : text[i] \in markers
    THEN CHOOSE i \in start..Len(text) :
            text[i] \in markers /\ \A j \in start..(i - 1) : text[j] \notin markers
    ELSE 0

\* text[json_start:json_end]; json_end = -1 (marker not found) drops the last
\* character of the text.
Slice(text, first, end) ==
    IF end # 0 THEN SubSeq(text, first, end - 1)
    ELSE IF first > Len(text) THEN <<>>
    ELSE SubSeq(text, first, Len(text) - 1) \o <<Truncated>>

StripFences(text) ==
    IF Find(text, {FenceJson}, 1) # 0
    THEN LET s == Find(text, {FenceJson}, 1) + 1
         IN  Slice(text, s, Find(text, {Fence, FenceJson}, s))
    ELSE IF Find(text, {Fence}, 1) # 0
    THEN LET s == Find(text, {Fence}, 1) + 1
         IN  Slice(text, s, Find(text, {Fence, FenceJson}, s))
    ELSE text

\* What client.chat.completions.create can do.
NetworkError == [kind |-> "network_error", text |-> <<>>]
Timeout == [kind |-> "timeout", text |-> <<>>]
Reply(text) == [kind |-> "text", text |-> text]

analyze_with_openai(data, source, outcome) ==
    IF outcome.kind # "text"
    THEN [raised |-> TRUE, result |-> NoAnalysis]
    ELSE LET ai_response == StripFences(outcome.text)
         IN  IF Len(ai_response) # 1 \/ ai_response[1] \notin RemoteDocs
             THEN [raised |-> TRUE, result |-> NoAnalysis]          \* json.JSONDecodeError
             ELSE LET doc == RemoteDoc(ai_response[1])
                  IN  IF ~doc.isObject
                      THEN [raised |-> TRUE, result |-> NoAnalysis]   \* TypeError on item assignment
                      ELSE LET a == doc.value
                               b == IF "source" \in a.keys THEN a
                                    ELSE [a EXCEPT !.source = source, !.keys = @ \cup {"source"}]
                               c == IF "importance" \in b.keys THEN b
                                    ELSE [b EXCEPT !.importance = "medium", !.keys = @ \cup {"importance"}]
                           IN  [raised |-> FALSE, result |-> c]

\* analyze_webhook_with_ai.  remote records whether the remote call was made,
\* fellBack whether its failure was replaced by the rule-based result.
analyze_webhook_with_ai(data, source, cfg, outcome) ==
    LET rules == analyze_with_rules(data, source)
        same(r, rem, fb) == [raised |-> r.raised, result |-> r.result, remote |-> rem, fellBack |-> fb]
    IN  IF ~cfg.ENABLE_AI_ANALYSIS THEN same(rules, FALSE, FALSE)
        ELSE IF cfg.OPENAI_API_KEY = "" THEN same(rules, FALSE, FALSE)
        ELSE LET r == analyze_with_openai(data, source, outcome)
             IN  IF r.raised THEN same(rules, TRUE, TRUE) ELSE same(r, TRUE, FALSE)

\* --------------------------------------------------------------- forwarder
\* What requests.post can do.
Http(code, body) == [kind |-> "http", code |-> code, body |-> body]
ForwardOutcomes ==
    { Http(200, "json"), Http(200, "empty"), Http(200, "text"), Http(500, "text"),
      [kind |-> "timeout", code |-> 0, body |-> ""],
      [kind |-> "connection_error", code |-> 0, body |-> ""],
      [kind |-> "exception", code |-> 0, body |-> ""] }

\* A forward result; sent and url record whether, and where, the POST left the
\* process.
ForwardResult(status, code, net) ==
    [status |-> status, status_code |-> code, sent |-> net, url |-> ""]
NoForward == [status |-> "", status_code |-> 0, sent |-> FALSE, url |-> ""]

FORWARD_URL == "http://92.38.131.57:8000/webhook"
NoUrl == "<None>"
TargetUrls == {NoUrl, "http://custom/hook"}

\* The try block of forward_to_remote: the POST and the mapping of its outcome.
PostToRemote(analysis_result, target_url, outcome) ==
    LET url == IF target_url = NoUrl THEN FORWARD_URL ELSE target_url
        posted(status, code) == [ForwardResult(status, code, TRUE) EXCEPT !.url = url]
    IN  IF ~IsStr(Get(analysis_result, "importance", "unknown"))
        THEN ForwardResult("error", 0, FALSE)            \* requests rejects the header value
        ELSE CASE outcome.kind = "http" /\ outcome.code = 200 /\ outcome.body # "text" ->
                     posted("success", 200)
               [] outcome.kind = "http" /\ outcome.code = 200 /\ outcome.body = "text" ->
                     posted("error", 0)                  \* response.json() raises
               [] outcome.kind = "http" /\ outcome.code # 200 ->
                     posted("failed", outcome.code)
               [] outcome.kind = "timeout" -> posted("timeout", 0)
               [] outcome.kind = "connection_error" -> posted("connection_error", 0)
               [] OTHER -> posted("error", 0)

\* forward_to_remote(webhook_data, analysis_result, target_url).
forward_to_remote_default_only(analysis_result, target_url, cfg, outcome) ==
    IF ~cfg.ENABLE_FORWARD /\ target_url = NoUrl THEN ForwardResult("disabled", 0, FALSE)
    ELSE PostToRemote(analysis_result, target_url, outcome)
forward_to_remote(analysis_result, target_url, cfg, outcome) ==
    IF ~cfg.ENABLE_FORWARD THEN ForwardResult("disabled", 0, FALSE)
    ELSE PostToRemote(analysis_result, target_url, outcome)

\* ------------------------------------------------------------------- state
VARIABLES
    cfg,          \* Config: read-only after start-up
    db,           \* webhook_events table: sequence of rows, id = position
    files,        \* webhooks_data directory: file name -> record
    now,          \* the wall clock
    th,           \* per worker: the handler it runs, its locals and its response
    nops,         \* handler invocations so far
    call,         \* the latest direct call of one function: arguments and result
    env           \* what a pair of requests is sent and given by its collaborators

vars == <<cfg, db, files, now, th, nops, call, env>>

WEBHOOK_SECRET == "default-secret-key"

\* Settings that ai_analyzer.py and models.py read from Config: the credential
\* of the remote service (empty when not configured) and the connection string.
ApiKeys == {"", "sk-key"}
DatabaseUrls == {"sqlite:///webhooks.db", "nodriver://"}

Configs ==
    [ENABLE_AI_ANALYSIS : BOOLEAN, ENABLE_FORWARD : BOOLEAN,
     OPENAI_API_KEY : ApiKeys, DATABASE_URL : DatabaseUrls]

\* create_engine raises for a URL whose dialect cannot be loaded.
get_session(c) == [raised |-> c.DATABASE_URL = "nodriver://"]

NoId == [kind |-> "none", id |-> 0, path |-> <<"", 0>>]
RowId(i) == [kind |-> "id", id |-> i, path |-> <<"", 0>>]
FilePath(name) == [kind |-> "path", id |-> 0, path |-> name]

NoResponse ==
    [code |-> 0, success |-> FALSE, error |-> "", webhook_id |-> NoId,
     ai_analysis |-> NoAnalysis, forward_status |-> ""]
ErrorResponse(code, error) == [NoResponse EXCEPT !.code = code, !.error = error]

Idle ==
    [pc |-> "idle", op |-> "", endpoint |-> "", source |-> "", signature |-> <<>>,
     payload |-> "", badSig |-> FALSE, data |-> NoValue, analysis |-> NoAnalysis,
     remote |-> FALSE, fellBack |-> FALSE, dbSaved |-> FALSE, fallback |-> FALSE,
     dbError |-> "", fileFailed |-> FALSE, filepath |-> <<"", 0>>,
     limit |-> 0, fromFiles |-> FALSE, names |-> {}, unreadable |-> {}, webhooks |-> <<>>,
     webhook_id |-> NoId, target |-> 0, target_url |-> NoUrl,
     importance |-> "", forward_result |-> NoForward,
     reason |-> "", resp |-> NoResponse, req |-> 0, trace |-> <<>>]

NoCall == [fn |-> ""]
NoEnv == [source |-> ""]

Init ==
    /\ cfg \in Configs
    /\ db = <<>>
    /\ files = <<>>
    /\ now = 0
    /\ th = [w \in Workers |-> Idle]
    /\ nops = 0
    /\ call = NoCall
    /\ env = NoEnv

\* datetime.now(): the clock is read with the granularity of one handler run and
\* counted from the first run; it may have advanced, or not, when the next
\* request arrives.
Readings == IF nops = 0 THEN {0} ELSE {t \in now..(now + 1) : t <= MaxClock}

Step(w, name) == Append(th[w].trace, name)
Fail(w, step, code, error) ==
    [th[w] EXCEPT !.pc = "done", !.trace = Append(@, step), !.resp = ErrorResponse(code, error)]

\* ------------------------------------------------- receive_webhook, by step
Endpoints == {"/webhook", "/webhook/<source>"}

\* The source of a request: the X-Webhook-Source header, unknown when the
\* request has none, on /webhook (app.py 164); the variable of the URL on
\* /webhook/<source>, whatever the header (app.py 251).
NoHeader == "<no header>"
SourceHeaders == Sources \cup {NoHeader}
RequestSourceHeaderOnly(ep, header, path) ==
    IF header = NoHeader THEN "unknown" ELSE header
RequestSource(ep, header, path) ==
    IF ep = "/webhook"
    THEN IF header = NoHeader THEN "unknown" ELSE header
    ELSE path

\* A request arrives: headers and body are read (app.py 162-172, 260-269).
ReceiveWith(w, ep, header, path, raw) ==
    /\ th[w].pc \in {"idle", "done"}
    /\ th' = [th EXCEPT ![w] =
                [Idle EXCEPT !.pc = "verify", !.op = "ingest", !.endpoint = ep,
                             !.source = RequestSource(ep, header, path),
                             !.payload = raw, !.req = nops + 1,
                             !.trace = <<"received">>]]
    /\ nops' = nops + 1
    /\ now' \in Readings
    /\ UNCHANGED <<env, call, cfg, db, files>>
Receive(w) ==
    \E ep \in Endpoints, header \in SourceHeaders, path \in Sources, raw \in RawBodies :
        ReceiveWith(w, ep, header, path, raw)

\* if signature: if not verify_signature(payload, signature): 401
\* The signature header is first read here; badSig remembers that the request
\* carried a non-empty signature other than the digest of its body.
VerifyWith(w, signature) ==
    /\ th[w].pc = "verify"
    /\ LET v == verify_signature(th[w].payload, signature, WEBHOOK_SECRET)
           bad == signature # <<>> /\ signature # HexDigest(WEBHOOK_SECRET, th[w].payload)
       IN  th' = [th EXCEPT ![w] =
                    IF signature = <<>> THEN [@ EXCEPT !.pc = "parse"]
                    ELSE IF v.raised
                    THEN [Fail(w, "verify", 500, "Internal server error")
                             EXCEPT !.signature = signature, !.badSig = bad]
                    ELSE IF ~v.value
                    THEN [Fail(w, "verify", 401, "Invalid signature")
                             EXCEPT !.signature = signature, !.badSig = bad]
                    ELSE [@ EXCEPT !.pc = "parse", !.badSig = bad,
                                   !.trace = Step(w, "verify")]]
    /\ UNCHANGED <<env, call, cfg, db, files, now, nops>>
Verify(w) ==
    \E signature \in SignaturesFor(WEBHOOK_SECRET, th[w].payload) : VerifyWith(w, signature)

\* data = request.get_json(), 400 when it raises
ParseWith(w, contentJson) ==
    /\ th[w].pc = "parse"
    /\ LET j == get_json(th[w].payload, contentJson)
       IN  th' = [th EXCEPT ![w] =
                    IF j.raised THEN Fail(w, "parse", 400, "Invalid JSON payload")
                    ELSE [@ EXCEPT !.pc = "classify", !.data = j.value,
                                   !.trace = Step(w, "parse")]]
    /\ UNCHANGED <<env, call, cfg, db, files, now, nops>>
Parse(w) == \E contentJson \in BOOLEAN : ParseWith(w, contentJson)

\* Completions the remote service is made to give in the pipeline.
RemoteOutcomes ==
    { NetworkError, Timeout, Reply(<<"sorry">>),
      Reply(<<FenceJson, "doc:HIGH", Fence>>),
      Reply(<<"doc:critical">>),
      Reply(<<"doc:null">>) }

\* analysis_result = analyze_webhook_with_ai(webhook_full_data)
ClassifyWith(w, outcome) ==
    /\ th[w].pc = "classify"
    /\ LET a == analyze_webhook_with_ai(th[w].data, th[w].source, cfg, outcome)
       IN  th' = [th EXCEPT ![w] =
                    IF a.raised
                    THEN [Fail(w, "classify", 500, "Internal server error")
                             EXCEPT !.remote = a.remote, !.fellBack = a.fellBack]
                    ELSE [@ EXCEPT !.pc = "save", !.analysis = a.result,
                                   !.remote = a.remote, !.fellBack = a.fellBack,
                                   !.trace = Step(w, "classify")]]
    /\ UNCHANGED <<env, call, cfg, db, files, now, nops>>
Classify(w) == \E outcome \in RemoteOutcomes : ClassifyWith(w, outcome)

RowUnclassified(id, t, created, w) ==
    [id |-> id, source |-> th[w].source, timestamp |-> t, parsed_data |-> th[w].data,
     ai_analysis |-> NoAnalysis, importance |-> JsonNull,
     forward_status |-> "pending", created_at |-> created, req |-> th[w].req]
Row(id, t, created, w) ==
    [id |-> id, source |-> th[w].source, timestamp |-> t, parsed_data |-> th[w].data,
     ai_analysis |-> th[w].analysis,
     importance |-> Get(th[w].analysis, "importance", JsonNull),
     forward_status |-> "pending", created_at |-> created, req |-> th[w].req]

\* save_webhook_data up to the commit (utils.py 53-72): get_session is called
\* before the try; add and commit are inside it.
SaveDbWith(w, committed) ==
    /\ th[w].pc = "save"
    /\ IF get_session(cfg).raised
       THEN /\ th' = [th EXCEPT ![w] =
                        [Fail(w, "save", 500, "Internal server error")
                            EXCEPT !.dbError = "session"]]
            /\ UNCHANGED <<db, now>>
       ELSE     IF committed
                THEN /\ db' = Append(db, Row(Len(db) + 1, now, now, w))
                     /\ now' = now
                     /\ th' = [th EXCEPT ![w] =
                                 [@ EXCEPT !.pc = "save_file", !.dbSaved = TRUE,
                                           !.webhook_id = RowId(Len(db) + 1),
                                           !.trace = Step(w, "persist")]]
                ELSE /\ db' = db
                     /\ now' = now
                     /\ th' = [th EXCEPT ![w] =
                                 [@ EXCEPT !.pc = "save_file", !.fallback = TRUE,
                                           !.dbError = "commit"]]
    /\ UNCHANGED <<env, call, cfg, files, nops>>
SaveDb(w) == \E committed \in BOOLEAN : SaveDbWith(w, committed)

\* The content of a record file: full_data once json.dump has completed and the
\* file is closed; before that the file is empty (just opened with mode w) or
\* holds the first keys only.  written tells which; req is the request that
\* writes it.
FileRecord(t, w) ==
    [timestamp |-> t, source |-> th[w].source, parsed_data |-> th[w].data,
     ai_analysis |-> th[w].analysis, req |-> th[w].req, written |-> "full"]
PartialFile(t, w) ==
    [timestamp |-> t, source |-> th[w].source, parsed_data |-> NoValue,
     ai_analysis |-> NoAnalysis, req |-> th[w].req, written |-> "partial"]
EmptyFile(w) ==
    [timestamp |-> 0, source |-> "", parsed_data |-> NoValue,
     ai_analysis |-> NoAnalysis, req |-> th[w].req, written |-> "empty"]

WriteFileDropped(name, record) == files
WriteFile(name, record) ==
    [n \in (DOMAIN files) \cup {name} |-> IF n = name THEN record ELSE files[n]]

\* save_webhook_to_file, called after the commit (line 75) or from the except
\* branch (line 83), up to open(filepath, 'w'), which creates the file or
\* truncates the one of that name.  A failure of the first call is caught by
\* that except branch, which calls it again; a failure of the second call
\* propagates.
SaveFileWith(w, opened) ==
    /\ th[w].pc = "save_file"
    /\      IF opened
            THEN /\ files' = WriteFile(<<th[w].source, now>>, EmptyFile(w))
                 /\ now' = now
                 /\ th' = [th EXCEPT ![w] =
                             [@ EXCEPT !.pc = "dump_file", !.filepath = <<th[w].source, now>>]]
            ELSE /\ files' = files
                 /\ now' = now
                 /\ th' = [th EXCEPT ![w] =
                             IF th[w].fallback
                             THEN [Fail(w, "save", 500, "Internal server error")
                                      EXCEPT !.fileFailed = TRUE]
                             ELSE [@ EXCEPT !.fallback = TRUE, !.fileFailed = TRUE]]
    /\ UNCHANGED <<env, call, cfg, db, nops>>
SaveFile(w) == \E opened \in BOOLEAN : SaveFileWith(w, opened)

\* json.dump(full_data, f): the text reaches the file piece by piece.
DumpFile(w) ==
    /\ th[w].pc = "dump_file"
    /\ files' = WriteFile(th[w].filepath, PartialFile(th[w].filepath[2], w))
    /\ th' = [th EXCEPT ![w] = [@ EXCEPT !.pc = "close_file"]]
    /\ UNCHANGED <<env, call, cfg, db, now, nops>>

\* Leaving the with block: the rest is flushed and the file closed;
\* return filepath.
CloseFile(w) ==
    /\ th[w].pc = "close_file"
    /\ files' = WriteFile(th[w].filepath, FileRecord(th[w].filepath[2], w))
    /\ th' = [th EXCEPT ![w] =
                [@ EXCEPT !.pc = "forward",
                          !.webhook_id = IF th[w].fallback THEN FilePath(th[w].filepath) ELSE @,
                          !.trace = Step(w, "persist_file")]]
    /\ UNCHANGED <<env, call, cfg, db, now, nops>>

\* importance = analysis_result.get('importance', '').lower()
\* if importance == 'high': forward
ShouldForwardExact(analysis) == Get(analysis, "importance", "") = "high"
ShouldForward(analysis) == LowerWord(Get(analysis, "importance", "")) = "high"

ForwardWith(w, outcome) ==
    /\ th[w].pc = "forward"
    /\ LET raw == Get(th[w].analysis, "importance", "")
       IN  IF ~IsStr(raw)
           THEN th' = [th EXCEPT ![w] = Fail(w, "decide", 500, "Internal server error")]
           ELSE IF ShouldForward(th[w].analysis)
           THEN   LET r == forward_to_remote(th[w].analysis, NoUrl, cfg, outcome)
                  IN  th' = [th EXCEPT ![w] =
                               [@ EXCEPT !.pc = "respond", !.importance = LowerWord(raw),
                                         !.forward_result = r,
                                         !.trace = Step(w, "forward")]]
           ELSE th' = [th EXCEPT ![w] =
                         [@ EXCEPT !.pc = "respond", !.importance = LowerWord(raw),
                                   !.forward_result = ForwardResult("skipped", 0, FALSE),
                                   !.reason = LowerWord(raw),
                                   !.trace = Step(w, "skip")]]
    /\ UNCHANGED <<env, call, cfg, db, files, now, nops>>
Forward(w) == \E outcome \in ForwardOutcomes : ForwardWith(w, outcome)

\* return jsonify({... 'forward_status': forward_result.get('status', 'unknown')}), 200
SuccessResponseOnlyIfForwarded(w) ==
    IF th[w].forward_result.status \in {"success", "skipped", "disabled"}
    THEN [code |-> 200, success |-> TRUE, error |-> "",
          webhook_id |-> IF th[w].endpoint = "/webhook" THEN th[w].webhook_id ELSE NoId,
          ai_analysis |-> th[w].analysis,
          forward_status |-> th[w].forward_result.status]
    ELSE ErrorResponse(500, "Internal server error")
SuccessResponse(w) ==
    [code |-> 200, success |-> TRUE, error |-> "",
     webhook_id |-> IF th[w].endpoint = "/webhook" THEN th[w].webhook_id ELSE NoId,
     ai_analysis |-> th[w].analysis,
     forward_status |-> th[w].forward_result.status]

Respond(w) ==
    /\ th[w].pc = "respond"
    /\ th' = [th EXCEPT ![w] =
                [@ EXCEPT !.pc = "done", !.trace = Step(w, "respond"),
                          !.resp = SuccessResponse(w)]]
    /\ UNCHANGED <<env, call, cfg, db, files, now, nops>>

\* ------------------------------------------------------ manual operations
ExceptionText == "str(e)"
Done(w, op, id, resp) ==
    [Idle EXCEPT !.pc = "done", !.op = op, !.target = id, !.req = nops + 1,
                 !.trace = <<"received", "respond">>, !.resp = resp]

\* webhook_event.ai_analysis = analysis_result
\* webhook_event.importance = analysis_result.get('importance')
ReanalyzedStale(row, analysis_result) ==
    [row EXCEPT !.ai_analysis = analysis_result]
Reanalyzed(row, analysis_result) ==
    [row EXCEPT !.ai_analysis = analysis_result,
                !.importance = Get(analysis_result, "importance", JsonNull)]

\* POST /api/reanalyze/<webhook_id> (app.py 41-92), one handler run.
Reanalyze(w) ==
    /\ th[w].pc \in {"idle", "done"}
    /\ nops' = nops + 1
    /\ now' \in Readings
    /\ \E webhook_id \in 1..(Len(db) + 1), queried \in BOOLEAN, committed \in BOOLEAN,
          outcome \in RemoteOutcomes :
         LET finish(resp) == th' = [th EXCEPT ![w] = Done(w, "reanalyze", webhook_id, resp)]
         IN  IF get_session(cfg).raised \/ ~queried
             THEN finish(ErrorResponse(500, ExceptionText)) /\ db' = db
             ELSE IF webhook_id > Len(db)
             THEN finish(ErrorResponse(404, "Webhook not found")) /\ db' = db
             ELSE LET a == analyze_webhook_with_ai(db[webhook_id].parsed_data,
                                                   db[webhook_id].source, cfg, outcome)
                  IN  IF a.raised \/ ~committed
                      THEN finish(ErrorResponse(500, ExceptionText)) /\ db' = db
                      ELSE /\ db' = [db EXCEPT ![webhook_id] = Reanalyzed(@, a.result)]
                           /\ th' = [th EXCEPT ![w] =
                                       [Done(w, "reanalyze", webhook_id,
                                             [NoResponse EXCEPT !.code = 200, !.success = TRUE,
                                                                !.ai_analysis = a.result])
                                          EXCEPT !.analysis = a.result, !.remote = a.remote,
                                                 !.fellBack = a.fellBack]]
    /\ UNCHANGED <<env, call, cfg, files>>

\* request.json of the manual forward: no JSON body (raises), an empty object
\* or one naming forward_url.
ForwardBodies == {"none", "{}", "{\"forward_url\":u}"}

\* custom_url = request.json.get('forward_url') if request.json else None
CustomUrl(body) == IF body = "{\"forward_url\":u}" THEN "http://custom/hook" ELSE NoUrl

\* POST /api/forward/<webhook_id> (app.py 95-148), one handler run.
ManualForward(w) ==
    /\ th[w].pc \in {"idle", "done"}
    /\ nops' = nops + 1
    /\ now' \in Readings
    /\ \E webhook_id \in 1..(Len(db) + 1), queried \in BOOLEAN, committed \in BOOLEAN,
          body \in ForwardBodies, outcome \in ForwardOutcomes :
         LET finish(resp) == th' = [th EXCEPT ![w] = Done(w, "forward", webhook_id, resp)]
         IN  IF get_session(cfg).raised \/ ~queried
             THEN finish(ErrorResponse(500, ExceptionText)) /\ db' = db
             ELSE IF webhook_id > Len(db)
             THEN finish(ErrorResponse(404, "Webhook not found")) /\ db' = db
             ELSE IF body = "none"
             THEN finish(ErrorResponse(500, ExceptionText)) /\ db' = db
             ELSE LET r == forward_to_remote(db[webhook_id].ai_analysis, CustomUrl(body),
                                             cfg, outcome)
                  IN  IF ~committed
                      THEN /\ db' = db
                           /\ th' = [th EXCEPT ![w] =
                                       [Done(w, "forward", webhook_id,
                                             ErrorResponse(500, ExceptionText))
                                          EXCEPT !.forward_result = r,
                                                 !.target_url = CustomUrl(body)]]
                      ELSE /\ db' = [db EXCEPT ![webhook_id] = [@ EXCEPT !.forward_status = r.status]]
                           /\ th' = [th EXCEPT ![w] =
                                       [Done(w, "forward", webhook_id,
                                             [NoResponse EXCEPT !.code = 200,
                                                                !.success = (r.status = "success"),
                                                                !.forward_status = r.status])
                                          EXCEPT !.forward_result = r,
                                                 !.target_url = CustomUrl(body)]]
    /\ UNCHANGED <<env, call, cfg, files>>

\* ------------------------------------------------------------ GET /api/webhooks
\* datetime.isoformat(): the text of a time, most significant digit first;
\* texts of times compare as strings, character by character.
isoformat(t) == <<t \div 10, t % 10>>
StrLess(a, b) ==
    \E i \in 1..Len(a) : i <= Len(b) /\ a[i] < b[i] /\ \A j \in 1..(i - 1) : a[j] = b[j]

Absent == "<absent>"

\* WebhookEvent.to_dict(), with the keys the claims are about.
to_dict(row) ==
    [id |-> row.id, filename |-> Absent, source |-> row.source,
     timestamp |-> isoformat(row.timestamp), parsed_data |-> row.parsed_data,
     ai_analysis |-> row.ai_analysis, importance |-> row.importance,
     forward_status |-> row.forward_status, created_at |-> isoformat(row.created_at),
     req |-> row.req, written |-> "full"]

\* json.load of a record file followed by data['filename'] = filename; the
\* record has no id, importance or forward_status key.
FromFile(name, content) ==
    [id |-> Absent, filename |-> name, source |-> content.source,
     timestamp |-> isoformat(content.timestamp), parsed_data |-> content.parsed_data,
     ai_analysis |-> content.ai_analysis, importance |-> Absent,
     forward_status |-> Absent, created_at |-> Absent,
     req |-> content.req, written |-> content.written]

\* json.load(f) raises on a file that does not hold a whole JSON document.
LoadFileLenient(name, content) == [raised |-> FALSE, value |-> FromFile(name, content)]
LoadFile(name, content) ==
    IF content.written = "full"
    THEN [raised |-> FALSE, value |-> FromFile(name, content)]
    ELSE [raised |-> TRUE, value |-> FromFile(name, content)]

\* webhooks[:limit]
Take(webhooks, limit) ==
    IF limit >= 0
    THEN SubSeq(webhooks, 1, IF limit < Len(webhooks) THEN limit ELSE Len(webhooks))
    ELSE SubSeq(webhooks, 1, IF Len(webhooks) + limit > 0 THEN Len(webhooks) + limit ELSE 0)

\* webhooks.sort(key=timestamp, reverse=True): stable, equal keys keep their
\* order.
RECURSIVE SortNewestFirst(_)
SortLeftOut(webhooks) == webhooks
SortNewestFirst(webhooks) ==
    IF webhooks = <<>> THEN <<>>
    ELSE LET rest == SortNewestFirst(SubSeq(webhooks, 1, Len(webhooks) - 1))
             e == webhooks[Len(webhooks)]
             k == Cardinality({i \in 1..Len(rest) : ~StrLess(rest[i].timestamp, e.timestamp)})
         IN  SubSeq(rest, 1, k) \o <<e>> \o SubSeq(rest, k + 1, Len(rest))

\* query.order_by(timestamp.desc()).limit(limit).all(): the rows by decreasing
\* timestamp, rows of equal timestamp in any order, the first limit of them.
Query(rows, limit) ==
    { Take([i \in 1..Len(rows) |-> rows[p[i]]], limit) :
        p \in { q \in [1..Len(rows) -> 1..Len(rows)] :
                    /\ \A i, j \in 1..Len(rows) : i # j => q[i] # q[j]
                    /\ \A i, j \in 1..Len(rows) :
                          i < j => rows[q[i]].timestamp >= rows[q[j]].timestamp } }

\* limit = request.args.get('limit', 50, type=int)
Limits == {0, 1, 2, 50}

\* list_webhooks starts (app.py 29-33).
ListWebhooks(w) ==
    /\ th[w].pc \in {"idle", "done"}
    /\ \E limit \in Limits :
         th' = [th EXCEPT ![w] =
                  [Idle EXCEPT !.pc = "query", !.op = "list", !.limit = limit,
                               !.req = nops + 1, !.trace = <<"received">>]]
    /\ nops' = nops + 1
    /\ UNCHANGED <<env, call, cfg, db, files, now>>

\* get_all_webhooks (utils.py 161-178): get_session is called before the try
\* and the handler catches nothing; a failing query leads to the file scan,
\* which starts with os.listdir.
ListQuery(w) ==
    /\ th[w].pc = "query"
    /\ IF get_session(cfg).raised
       THEN th' = [th EXCEPT ![w] = Fail(w, "query", 500, "Internal Server Error")]
       ELSE \E queried \in BOOLEAN :
              IF queried
              THEN \E events \in Query(db, th[w].limit) :
                     th' = [th EXCEPT ![w] =
                              [@ EXCEPT !.pc = "done", !.trace = Append(Step(w, "query"), "respond"),
                                        !.webhooks = [i \in 1..Len(events) |-> to_dict(events[i])],
                                        !.resp = [NoResponse EXCEPT !.code = 200, !.success = TRUE]]]
              ELSE th' = [th EXCEPT ![w] =
                            [@ EXCEPT !.pc = "scan", !.fromFiles = TRUE,
                                      !.names = DOMAIN files, !.trace = Step(w, "listdir")]]
    /\ UNCHANGED <<env, call, cfg, db, files, now, nops>>

\* One turn of the loop of get_webhooks_from_files (utils.py 198-206), on the
\* files in the order os.listdir gave them: a file that cannot be loaded is
\* logged (unreadable) and left out.
ListRead(w) ==
    /\ th[w].pc = "scan"
    /\ \E filename \in th[w].names :
         LET data == LoadFile(filename, files[filename])
         IN  th' = [th EXCEPT ![w] =
                      [@ EXCEPT !.names = @ \ {filename},
                                !.unreadable = IF data.raised THEN @ \cup {filename} ELSE @,
                                !.webhooks = IF data.raised THEN @ ELSE Append(@, data.value)]]
    /\ UNCHANGED <<env, call, cfg, db, files, now, nops>>

\* After the loop: sort, cut to limit, answer (utils.py 209-212, app.py 34-38).
ListSort(w) ==
    /\ th[w].pc = "scan"
    /\ th[w].names = {}
    /\ th' = [th EXCEPT ![w] =
                [@ EXCEPT !.pc = "done", !.trace = Append(Step(w, "sort"), "respond"),
                          !.webhooks = Take(SortNewestFirst(th[w].webhooks), th[w].limit),
                          !.resp = [NoResponse EXCEPT !.code = 200, !.success = TRUE]]]
    /\ UNCHANGED <<env, call, cfg, db, files, now, nops>>

\* The ingestion endpoints and the manual operations, at most MaxOps handler
\* runs.
Next ==
    \E w \in Workers :
        \/ nops < MaxOps /\ Reanalyze(w)
        \/ nops < MaxOps /\ ManualForward(w)
        \/ nops < MaxOps /\ Receive(w)
        \/ Verify(w)
        \/ Parse(w)
        \/ Classify(w)
        \/ SaveDb(w)
        \/ SaveFile(w)
        \/ DumpFile(w)
        \/ CloseFile(w)
        \/ Forward(w)
        \/ Respond(w)

Spec == Init /\ [][Next]_vars

\* ------------------------------------------- the event store over several runs
\* One deployment (remote classification configured, forwarding off, store
\* reachable) receiving unsigned JSON events from one source, reanalysing and
\* listing them; the commit of a row may fail, the query of a list may fail.
StoreConfig ==
    [ENABLE_AI_ANALYSIS |-> TRUE, ENABLE_FORWARD |-> FALSE,
     OPENAI_API_KEY |-> "sk-key", DATABASE_URL |-> "sqlite:///webhooks.db"]
StoreBodies == {"{\"event\":\"payment_failed\"}", "{\"event\":\"job_completed\"}"}

InitStore == Init /\ cfg = StoreConfig

\* The remote service is down (rule-based result) or answers critical.
StoreAnalysis(w) ==
    th'[w].fellBack \/ Get(th'[w].analysis, "importance", "") = "critical"

StoreReceive(w) ==
    /\ nops < MaxStoreOps
    /\ Receive(w)
    /\ th'[w].endpoint = "/webhook" /\ th'[w].source = "github"
    /\ th'[w].payload \in StoreBodies
StoreVerify(w) == Verify(w) /\ th'[w].pc = "parse" /\ th'[w].trace = th[w].trace
StoreParse(w) == Parse(w) /\ th'[w].pc = "classify"
StoreClassify(w) == Classify(w) /\ th'[w].pc = "save" /\ StoreAnalysis(w)
StoreSaveFile(w) == SaveFile(w) /\ ~th'[w].fileFailed
StoreReanalyze(w) ==
    /\ nops < MaxStoreOps
    /\ Reanalyze(w)
    /\ th'[w].resp.code = 200 => StoreAnalysis(w)
StoreList(w) == nops < MaxStoreOps /\ ListWebhooks(w)

NextStore ==
    \E w \in Workers :
        \/ StoreReceive(w)
        \/ StoreVerify(w)
        \/ StoreParse(w)
        \/ StoreClassify(w)
        \/ SaveDb(w)
        \/ StoreSaveFile(w)
        \/ DumpFile(w)
        \/ CloseFile(w)
        \/ Forward(w)
        \/ Respond(w)
        \/ StoreReanalyze(w)
        \/ StoreList(w)
        \/ ListQuery(w)
        \/ ListRead(w)
        \/ ListSort(w)

SpecStore == InitStore /\ [][NextStore]_vars

\* ------------------------------------------------- handlers run concurrently
\* Two workers of the server, each running one handler at a time, on one
\* deployment (rule-based classification, forwarding off, store reachable):
\* unsigned JSON events from one source and lists, interleaved step by step.
ConcWorkers == {1, 2}
ConcConfig ==
    [ENABLE_AI_ANALYSIS |-> FALSE, ENABLE_FORWARD |-> FALSE,
     OPENAI_API_KEY |-> "", DATABASE_URL |-> "sqlite:///webhooks.db"]

InitConc ==
    /\ cfg = ConcConfig
    /\ db = <<>>
    /\ files = <<>>
    /\ now = 0
    /\ th = [w \in ConcWorkers |-> Idle]
    /\ nops = 0
    /\ call = NoCall
    /\ env = NoEnv

ConcReceive(w) ==
    /\ nops < MaxConcOps
    /\ Receive(w)
    /\ th'[w].endpoint = "/webhook/<source>" /\ th'[w].source = "github"
    /\ th'[w].payload \in StoreBodies
ConcList(w) == nops < MaxConcOps /\ ListWebhooks(w) /\ th'[w].limit = 50

NextConc ==
    \E w \in ConcWorkers :
        \/ ConcReceive(w)
        \/ StoreVerify(w)
        \/ StoreParse(w)
        \/ Classify(w)
        \/ SaveDb(w)
        \/ StoreSaveFile(w)
        \/ DumpFile(w)
        \/ CloseFile(w)
        \/ Forward(w)
        \/ Respond(w)
        \/ ConcList(w)
        \/ ListQuery(w)
        \/ ListRead(w)
        \/ ListSort(w)

SpecConc == InitConc /\ [][NextConc]_vars

\* ------------------------------------------------ functions called directly
\* One call per behaviour, on arguments drawn from the sets below.
Secrets == {WEBHOOK_SECRET, "other-secret"}

\* Every signature that differs from sig in exactly one position.
Mutations(sig) ==
    { [sig EXCEPT ![i] = HexDigits[k]] : i \in 1..Len(sig), k \in 1..16 } \ {sig}

\* verify_signature(payload, signature, secret) on a body, with a signature made
\* for that body or for another one.
CallVerify ==
    /\ call = NoCall
    /\ \E secret \in Secrets, raw \in RawBodies, signed \in RawBodies :
         \E signature \in SignaturesFor(secret, signed) \cup Mutations(HexDigest(secret, raw)) :
            LET v == verify_signature(raw, signature, secret)
            IN  call' = [fn |-> "verify_signature", payload |-> raw, signature |-> signature,
                         secret |-> secret, raised |-> v.raised, value |-> v.value]
    /\ UNCHANGED <<env, cfg, db, files, now, th, nops>>

\* Analysis results handed to the forwarder: rule-based ones and remote ones.
ForwardAnalyses ==
    { RulesOnObject(JsonLoads(raw).value, src) :
        raw \in {r \in RawBodies : JsonLoads(r).ok /\ JsonLoads(r).value.kind = "object"},
        src \in Sources }
    \cup { RemoteDoc(tok).value : tok \in {"doc:HIGH", "doc:null", "doc:bare"} }

\* forward_to_remote(webhook_data, analysis_result, target_url)
CallForward ==
    /\ call = NoCall
    /\ \E analysis \in ForwardAnalyses, url \in TargetUrls, outcome \in ForwardOutcomes :
         call' = [fn |-> "forward_to_remote", analysis_result |-> analysis,
                  target_url |-> url, outcome |-> outcome,
                  result |-> forward_to_remote(analysis, url, cfg, outcome)]
    /\ UNCHANGED <<env, cfg, db, files, now, th, nops>>

\* Payloads handed to the classifier: objects with or without an event, the
\* event in lower, upper or mixed case and with keywords of one or several
\* groups, with any of the four keys the classifier looks for; and two values
\* that are not objects.
Events ==
    { <<>>, <<"ping">>, <<"ERROR">>, <<"payment", "failed">>, <<"job", "completed">>,
      <<"Payment", "Completed">>, <<"order", "alert", "finished">> }
DataKeys == {"user_id", "email", "amount", "price"}
RulePayloads ==
    { Obj(TRUE, ev, ks) : ev \in Events, ks \in SUBSET DataKeys }
    \cup { Obj(FALSE, <<>>, ks) : ks \in SUBSET DataKeys }
    \cup { NonObj("array"), NonObj("null") }

\* analyze_with_rules(data, source)
CallRules ==
    /\ call = NoCall
    /\ \E data \in RulePayloads, source \in Sources :
         LET r == analyze_with_rules(data, source)
         IN  call' = [fn |-> "analyze_with_rules", data |-> data, source |-> source,
                      raised |-> r.raised, result |-> r.result]
    /\ UNCHANGED <<env, cfg, db, files, now, th, nops>>

\* Completions given to a direct call of the classifier: those of the pipeline,
\* and documents that leave keys out.
ClassifierOutcomes ==
    RemoteOutcomes \cup { Reply(<<"doc:low">>), Reply(<<"doc:bare">>), Reply(<<"doc:array">>) }
ClassifierPayloads ==
    { Obj(TRUE, <<"payment", "failed">>, {}), Obj(TRUE, <<"job", "completed">>, {"amount"}),
      Obj(FALSE, <<>>, {"email"}), NonObj("array") }

\* analyze_webhook_with_ai(webhook_data)
CallAnalyze ==
    /\ call = NoCall
    /\ \E data \in ClassifierPayloads, source \in Sources, outcome \in ClassifierOutcomes :
         LET a == analyze_webhook_with_ai(data, source, cfg, outcome)
         IN  call' = [fn |-> "analyze_webhook_with_ai", data |-> data, source |-> source,
                      outcome |-> outcome, raised |-> a.raised, result |-> a.result,
                      remote |-> a.remote, fellBack |-> a.fellBack]
    /\ UNCHANGED <<env, cfg, db, files, now, th, nops>>

NextCalls ==
    \/ CallVerify
    \/ CallForward
    \/ CallRules
    \/ CallAnalyze

SpecCalls == Init /\ [][NextCalls]_vars

\* ------------------------------------------------ one request, both routes
\* The same request is sent twice: to POST /webhook with the source in the
\* X-Webhook-Source header (worker 1) and, once that one has ended and the clock
\* has moved on, to POST /webhook/<source> with the source in the URL (worker
\* 2).  env holds what is sent and what every collaborator does, the same for
\* the two: the body, the signature header, whether the content type is JSON,
\* the completion of the remote service, whether the commit succeeds, whether
\* the first and the second open of the record file succeed, and the outcome
\* of the POST to the collector.
PairConfigs == {c \in Configs : c.OPENAI_API_KEY = "sk-key"}
PairRemoteOutcomes ==
    { NetworkError, Reply(<<FenceJson, "doc:HIGH", Fence>>), Reply(<<"doc:critical">>),
      Reply(<<"doc:null">>) }
PairForwardOutcomes ==
    { Http(200, "json"), Http(500, "text"), [kind |-> "timeout", code |-> 0, body |-> ""] }
PairEnvs ==
    UNION { [source : {src}, payload : {raw},
             signature : SignaturesFor(WEBHOOK_SECRET, raw),
             contentJson : BOOLEAN,
             remote : PairRemoteOutcomes,
             committed : BOOLEAN,
             opened : [1..2 -> BOOLEAN],
             forward : PairForwardOutcomes] : src \in Sources, raw \in RawBodies }

InitPair ==
    /\ cfg \in PairConfigs
    /\ db = <<>>
    /\ files = <<>>
    /\ now = 0
    /\ th = [w \in ConcWorkers |-> Idle]
    /\ nops = 0
    /\ call = NoCall
    /\ env \in PairEnvs

PairReceive(w) ==
    /\ th[w].pc = "idle"
    /\ IF w = 1
       THEN ReceiveWith(w, "/webhook", env.source, env.source, env.payload)
       ELSE /\ th[1].pc = "done"
            /\ \E header \in SourceHeaders :
                  ReceiveWith(w, "/webhook/<source>", header, env.source, env.payload)
            /\ now' # now
PairVerify(w) == VerifyWith(w, env.signature)
PairParse(w) == ParseWith(w, env.contentJson)
PairClassify(w) == ClassifyWith(w, env.remote)
PairSaveDb(w) == SaveDbWith(w, env.committed)
PairSaveFile(w) == SaveFileWith(w, env.opened[IF th[w].fileFailed THEN 2 ELSE 1])
PairForward(w) == ForwardWith(w, env.forward)

NextPair ==
    \E w \in ConcWorkers :
        \/ PairReceive(w)
        \/ PairVerify(w)
        \/ PairParse(w)
        \/ PairClassify(w)
        \/ PairSaveDb(w)
        \/ PairSaveFile(w)
        \/ DumpFile(w)
        \/ CloseFile(w)
        \/ PairForward(w)
        \/ Respond(w)

SpecPair == InitPair /\ [][NextPair]_vars

\* ------------------------------------------------------------- properties
Ingest(w) == th[w].op = "ingest"
Ended(w) == th[w].pc = "done"
Has(w, step) == \E i \in 1..Len(th[w].trace) : th[w].trace[i] = step
Count(w, step) == Cardinality({i \in 1..Len(th[w].trace) : th[w].trace[i] = step})
RowsOf(r) == {i \in 1..Len(db) : db[i].req = r}
FilesOf(r) == {n \in DOMAIN files : files[n].req = r}
Persisted(r) == RowsOf(r) # {} \/ FilesOf(r) # {}

\* C1: a request with a non-empty signature other than the hex digest of its
\* body ends rejected with 401 after the verification step alone: nothing was
\* parsed, classified, forwarded or written for it.
C1_BadSignatureRejected ==
    \A w \in Workers :
        (Ingest(w) /\ Ended(w) /\ th[w].badSig) =>
            /\ th[w].resp.code = 401
            /\ th[w].trace = <<"received", "verify">>
            /\ ~Persisted(th[w].req)

\* C2: a request whose body is not valid JSON, with the signature absent or
\* valid, ends rejected with 400; the classifier and the forwarder were not
\* invoked and no record of it exists in either store.
C2_MalformedRejected ==
    \A w \in Workers :
        (Ingest(w) /\ Ended(w) /\ ~th[w].badSig /\ ~JsonLoads(th[w].payload).ok) =>
            /\ th[w].resp.code = 400
            /\ th[w].resp.error = "Invalid JSON payload"
            /\ ~Has(w, "classify") /\ ~th[w].remote
            /\ ~Has(w, "forward") /\ ~th[w].forward_result.sent
            /\ ~Persisted(th[w].req)

C2_Witness ==
    \E w \in Workers :
        /\ Ingest(w) /\ Ended(w) /\ ~JsonLoads(th[w].payload).ok
        /\ th[w].trace = <<"received", "verify", "parse">>
        /\ th[w].resp.code = 400
        /\ th[w].resp.error = "Invalid JSON payload"

\* C3: when the structured store fails at any step of save_webhook_data
\* (obtaining the session, add, commit) and the file write works, a file record
\* of the request is written, its path is returned, and the request succeeds.
C3_StoreFailureFallsBack ==
    \A w \in Workers :
        (Ingest(w) /\ Ended(w) /\ th[w].dbError # "" /\ ~th[w].fileFailed
            /\ IsStr(Get(th[w].analysis, "importance", ""))) =>
            /\ th[w].resp.code = 200
            /\ th[w].webhook_id.kind = "path"
            /\ FilesOf(th[w].req) # {}

\* C4: analyze_webhook_with_ai never raises: no handler run ends because the
\* classification step raised.
C4_ClassifierNeverRaises ==
    \A w \in Workers :
        ~(Ingest(w) /\ Ended(w) /\ th[w].trace[Len(th[w].trace)] = "classify")

\* C5: when the remote call was made and failed, classification yields the
\* rule-based result for the same payload and source and the request goes on.
C5_RemoteFailureFallsBack ==
    \A w \in Workers :
        (Ingest(w) /\ th[w].fellBack) =>
            /\ th[w].pc # "done" \/ th[w].trace[Len(th[w].trace)] # "classify"
            /\ th[w].analysis = RulesOnObject(th[w].data, th[w].source)
            /\ th[w].analysis.importance \in {"high", "medium", "low"}
            /\ (Ended(w) /\ th[w].dbError = "" /\ ~th[w].fileFailed) =>
                    /\ th[w].resp.code = 200
                    /\ th[w].resp.ai_analysis = RulesOnObject(th[w].data, th[w].source)

Decided(w) == Ingest(w) /\ (th[w].pc = "respond" \/ (Ended(w) /\ th[w].resp.code = 200))
Skipped == ForwardResult("skipped", 0, FALSE)

C7_ForwardStatusCurrent ==
    \A w \in Workers :
        /\ (Ingest(w) /\ Ended(w) /\ th[w].resp.code = 200) =>
                \A i \in RowsOf(th[w].req) :
                    db[i].forward_status = th[w].forward_result.status
        /\ (th[w].op = "forward" /\ Ended(w) /\ th[w].resp.code = 200) =>
                db[th[w].target].forward_status = th[w].forward_result.status

\* C8: every stored event's importance equals the importance of its current
\* ai_analysis and is one of high, medium, low, unknown.
C8_ImportanceInSync ==
    \A i \in 1..Len(db) :
        /\ db[i].importance = Get(db[i].ai_analysis, "importance", JsonNull)
        /\ db[i].importance \in {"high", "medium", "low", "unknown"}

C10_ForwardFailureTolerated ==
    \A w \in Workers :
        (Ingest(w) /\ Ended(w) /\ Has(w, "forward")) =>
            /\ th[w].resp.code = 200
            /\ th[w].resp.success
            /\ th[w].resp.forward_status = th[w].forward_result.status
            /\ th[w].forward_result.status \in
                  {"success", "failed", "timeout", "connection_error", "error", "disabled"}

C10_Witness ==
    \E w \in Workers :
        /\ Ingest(w) /\ Ended(w) /\ Has(w, "forward")
        /\ th[w].forward_result.status = "connection_error"
        /\ th[w].forward_result.sent
        /\ th[w].resp.code = 200
        /\ th[w].resp.forward_status = "connection_error"

\* C11: every handler run that ends with the internal-error status (500), on an
\* ingestion endpoint or on a manual reanalysis or forward, carries the generic
\* message and no text derived from the exception.
C11_GenericInternalError ==
    \A w \in DOMAIN th :
        (Ended(w) /\ th[w].resp.code = 500) =>
            /\ th[w].resp.error = "Internal server error"
            /\ th[w].resp.error # ExceptionText

\* C12: with forwarding enabled, the result of forward_to_remote follows the
\* outcome of the POST: HTTP 200 (whatever the body) gives success with status
\* code 200, another HTTP status gives failed with that status code, a timeout
\* gives timeout, a connection failure connection_error, any other exception
\* error.
C12_OutcomeMapping ==
    (call.fn = "forward_to_remote" /\ cfg.ENABLE_FORWARD /\ call.result.sent) =>
        LET o == call.outcome
            r == call.result
        IN  /\ (o.kind = "http" /\ o.code = 200) => (r.status = "success" /\ r.status_code = 200)
            /\ (o.kind = "http" /\ o.code # 200) => (r.status = "failed" /\ r.status_code = o.code)
            /\ (o.kind = "timeout") => r.status = "timeout"
            /\ (o.kind = "connection_error") => r.status = "connection_error"
            /\ (o.kind = "exception") => r.status = "error"

\* C13: with forwarding disabled, every call of forward_to_remote, whatever the
\* analysis, the target URL (default or custom) and the state of the network,
\* returns status disabled and sends nothing.
C13_DisabledNeverSends ==
    (call.fn = "forward_to_remote" /\ ~cfg.ENABLE_FORWARD) =>
        /\ call.result.status = "disabled"
        /\ ~call.result.sent
        /\ call.result.url = ""

C13_Witness ==
    /\ call.fn = "forward_to_remote"
    /\ ~cfg.ENABLE_FORWARD
    /\ call.target_url = "http://custom/hook"
    /\ call.outcome = Http(200, "json")
    /\ call.result.status = "disabled"

\* C14: verify_signature returns a boolean for every signature string: true
\* when the signature is the hex digest of the body under the secret, false for
\* every other one (another length, one character changed, the digest of a
\* body that differs), and never an exception.
C14_VerifyReturnsBoolean ==
    (call.fn = "verify_signature") =>
        /\ ~call.raised
        /\ call.value <=> (call.signature = HexDigest(call.secret, call.payload))

\* C15: a manual reanalysis that succeeds on a stored event replaces the row's
\* ai_analysis and importance by the new classification result and changes
\* nothing else: id, source, timestamp and created_at of the row, the number
\* of rows, the other rows and the record files stay as they were; one that
\* does not succeed changes nothing.  As a property of every step, it holds
\* after any number of reanalyses.
C15_ReanalysisFrame ==
    [][\A w \in DOMAIN th :
          (nops' = nops + 1 /\ th'[w].op = "reanalyze" /\ th'[w].req = nops + 1) =>
              LET id == th'[w].target
                  new == th'[w].resp.ai_analysis
              IN  /\ files' = files
                  /\ Len(db') = Len(db)
                  /\ \A j \in 1..Len(db) : j # id => db'[j] = db[j]
                  /\ IF th'[w].resp.code = 200
                     THEN /\ id \in 1..Len(db)
                          /\ db'[id].ai_analysis = new
                          /\ db'[id].importance = Get(new, "importance", JsonNull)
                          /\ db'[id].id = db[id].id
                          /\ db'[id].source = db[id].source
                          /\ db'[id].timestamp = db[id].timestamp
                          /\ db'[id].created_at = db[id].created_at
                          /\ db'[id].parsed_data = db[id].parsed_data
                     ELSE db' = db]_vars

\* A row whose analysis and importance were replaced: its mirror file still
\* holds the classification of the ingestion.
C15_Witness ==
    \E w \in DOMAIN th :
        /\ th[w].op = "reanalyze" /\ Ended(w) /\ th[w].resp.code = 200
        /\ nops = 3
        /\ th[w].target \in 1..Len(db)
        /\ db[th[w].target].importance = "critical"
        /\ db[th[w].target].ai_analysis = th[w].resp.ai_analysis
        /\ \E n \in DOMAIN files :
              /\ files[n].req = db[th[w].target].req
              /\ files[n].written = "full"
              /\ files[n].ai_analysis.importance = "low"

\* What save_webhook_data has written so far, per request: the rows and the
\* complete record files.
Written ==
    { [req |-> db[i].req, source |-> db[i].source, parsed_data |-> db[i].parsed_data,
       importance |-> db[i].importance] : i \in 1..Len(db) }
    \cup
    { [req |-> files[n].req, source |-> files[n].source, parsed_data |-> files[n].parsed_data,
       importance |-> Get(files[n].ai_analysis, "importance", JsonNull)] :
        n \in {m \in DOMAIN files : files[m].written = "full"} }

\* C16: every event written by save_webhook_data, as a row or as a file of the
\* fallback, is in the answer of a list whose limit is not below the number of
\* events, with the parsed_data, source and importance that were written.
C16_RoundTrip ==
    \A w \in DOMAIN th :
        (th[w].op = "list" /\ Ended(w) /\ th[w].resp.code = 200 /\ th[w].limit = 50) =>
            \A v \in Written :
                \E i \in 1..Len(th[w].webhooks) :
                    /\ th[w].webhooks[i].req = v.req
                    /\ th[w].webhooks[i].source = v.source
                    /\ th[w].webhooks[i].parsed_data = v.parsed_data
                    /\ th[w].webhooks[i].importance = v.importance

NewestFirst(ws) ==
    \A i, j \in 1..Len(ws) : i < j => ~StrLess(ws[i].timestamp, ws[j].timestamp)

\* The first limit of the events of a store, newest first: as many as the limit
\* and the store allow, each one an event of the store and none twice, none
\* older than an event left out.
MostRecentOf(ws, all, limit) ==
    /\ Len(ws) = (IF limit < Cardinality(all) THEN limit ELSE Cardinality(all))
    /\ \A i \in 1..Len(ws) : ws[i] \in all
    /\ \A i, j \in 1..Len(ws) : i # j => ws[i] # ws[j]
    /\ \A e \in all :
          (\A i \in 1..Len(ws) : ws[i] # e) =>
              \A i \in 1..Len(ws) : ~StrLess(ws[i].timestamp, e.timestamp)

\* C17: a list ends with success and at most limit events, newest first, which
\* are the most recent ones of the structured store when the query succeeded
\* and the most recent ones of the record files when it failed (limit ranging
\* over the non-negative integers).
C17_ListNewestFirst ==
    \A w \in DOMAIN th :
        (th[w].op = "list" /\ Ended(w)) =>
            /\ th[w].resp.code = 200
            /\ Len(th[w].webhooks) <= th[w].limit
            /\ NewestFirst(th[w].webhooks)
            /\ IF th[w].fromFiles
               THEN MostRecentOf(th[w].webhooks,
                                 {FromFile(n, files[n]) : n \in DOMAIN files}, th[w].limit)
               ELSE MostRecentOf(th[w].webhooks,
                                 {to_dict(db[i]) : i \in 1..Len(db)}, th[w].limit)

C17_Witness ==
    \E w \in DOMAIN th :
        /\ th[w].op = "list" /\ Ended(w) /\ th[w].fromFiles
        /\ th[w].limit = 1
        /\ Cardinality(DOMAIN files) = 2
        /\ Len(th[w].webhooks) = 1
        /\ th[w].webhooks[1].timestamp = isoformat(1)
        /\ \E n \in DOMAIN files : files[n].timestamp = 0

\* C18: while lists and writes interleave at every step of the write, a list
\* holds whole records only (a file that is open or half written is left out,
\* a row appears with its commit), the writer's next step is never held back
\* by a reader, and no write fails because of a reader.
C18_NoPartialRecord ==
    \A w \in DOMAIN th :
        /\ \A i \in 1..Len(th[w].webhooks) :
              /\ th[w].webhooks[i].written = "full"
              /\ th[w].webhooks[i].parsed_data # NoValue
              /\ th[w].webhooks[i].ai_analysis # NoAnalysis
        /\ (th[w].pc = "save") => ENABLED SaveDb(w)
        /\ (th[w].pc = "save_file") => ENABLED SaveFile(w)
        /\ (th[w].pc = "dump_file") => ENABLED DumpFile(w)
        /\ (th[w].pc = "close_file") => ENABLED CloseFile(w)
        /\ (Ingest(w) /\ Ended(w)) => th[w].resp.code = 200

\* A list that met a file in the middle of its write and left it out.
C18_Witness ==
    \E r \in DOMAIN th, w \in DOMAIN th :
        /\ th[r].op = "list" /\ Ended(r) /\ th[r].resp.code = 200
        /\ th[r].unreadable # {}
        /\ th[r].webhooks = <<>>
        /\ Ingest(w) /\ th[w].pc = "close_file"
        /\ th[w].filepath \in th[r].unreadable

\* C19: when two requests handled by different workers have both completed with
\* success, each has a record file of its own, under a name of its own, and a
\* row of its own when its commit succeeded: no write replaced the record of
\* the other request.
C19_DistinctRecords ==
    \A v \in DOMAIN th, w \in DOMAIN th :
        (v # w /\ Ingest(v) /\ Ingest(w) /\ Ended(v) /\ Ended(w)
            /\ th[v].resp.code = 200 /\ th[w].resp.code = 200) =>
            /\ th[v].filepath # th[w].filepath
            /\ FilesOf(th[v].req) # {} /\ FilesOf(th[w].req) # {}
            /\ FilesOf(th[v].req) \cap FilesOf(th[w].req) = {}
            /\ (th[v].dbSaved /\ th[w].dbSaved) =>
                    /\ RowsOf(th[v].req) # {} /\ RowsOf(th[w].req) # {}
                    /\ RowsOf(th[v].req) \cap RowsOf(th[w].req) = {}

Rank(step) ==
    CASE step = "received" -> 0
      [] step = "verify" -> 1
      [] step = "parse" -> 2
      [] step = "classify" -> 3
      [] step = "persist" -> 4
      [] step \in {"persist_file", "save"} -> 5
      [] step \in {"forward", "skip", "decide"} -> 6
      [] OTHER -> 7

Mentions(event, keywords) == \E i \in 1..Len(event) : LowerWord(event[i]) \in keywords
EventOf(data) == IF data.hasEvent THEN data.event ELSE <<>>
RulesCall == call.fn = "analyze_with_rules" /\ ~call.raised

\* C21: for every object payload the rule-based importance follows the event
\* alone, compared without regard to case, the keyword groups taken in order:
\* error/failure/critical/alert gives high; otherwise success/completed/finished
\* gives low, a business keyword present or not; otherwise user/order/payment
\* gives high; otherwise medium.  The other keys of the payload and the source
\* change nothing.
C21_RuleOrder ==
    RulesCall =>
        LET ev == EventOf(call.data)
        IN  call.result.importance =
                IF Mentions(ev, {"error", "failure", "critical", "alert"}) THEN "high"
                ELSE IF Mentions(ev, {"success", "completed", "finished"}) THEN "low"
                ELSE IF Mentions(ev, {"user", "order", "payment"}) THEN "high"
                ELSE "medium"

C21_Witness ==
    /\ RulesCall
    /\ call.data.event = <<"Payment", "Completed">>
    /\ call.data.keys = {"amount", "user_id"}
    /\ call.result.importance = "low"

FinancialWarning == "financial data involved, requires extra validation"
InRisks(analysis, risk) == \E i \in 1..Len(analysis.risks) : analysis.risks[i] = risk

\* C22: for every object payload with an amount or a price key, whatever its
\* event and its other keys, the rule-based result has data_type financial and
\* the financial-data warning among its risks; with user_id or email and
\* neither amount nor price it has data_type user_related.
C22_DataTypeTags ==
    RulesCall =>
        LET ks == call.data.keys
            r == call.result
        IN  /\ (ks \cap {"amount", "price"} # {}) =>
                   /\ Get(r, "data_type", Absent) = "financial"
                   /\ InRisks(r, FinancialWarning)
            /\ (ks \cap {"user_id", "email"} # {} /\ ks \cap {"amount", "price"} = {}) =>
                   Get(r, "data_type", Absent) = "user_related"

C22_Witness ==
    /\ RulesCall
    /\ call.data.keys = {"price", "email"}
    /\ call.data.event = <<"ERROR">>
    /\ call.result.data_type = "financial"
    /\ call.result.risks = <<"may affect service stability", FinancialWarning>>

\* C23: for every object payload without an event key the rule-based summary is
\* the default text made from the source handed in, not the general-event
\* summary with an empty event name.
C23_DefaultSummary ==
    (RulesCall /\ ~call.data.hasEvent) =>
        /\ call.result.summary = Text("received webhook event from ", <<call.source>>)
        /\ call.result.summary # Text("general event: ", <<>>)

\* The document the remote service sent, for a call answered by the remote
\* strategy.
RemoteAnswered == call.fn = "analyze_webhook_with_ai" /\ ~call.raised /\ call.remote /\ ~call.fellBack
SentDoc == RemoteDoc(StripFences(call.outcome.text)[1]).value

\* C24: every result the classifier returns, by the remote strategy or by the
\* rules, has at least the keys source, event_type, importance, summary, actions
\* and risks; a remote document without importance gives importance medium, one
\* without source gives the source handed in.
C24_RequiredKeys ==
    (call.fn = "analyze_webhook_with_ai" /\ ~call.raised) =>
        /\ RequiredKeys \subseteq call.result.keys
        /\ (RemoteAnswered /\ "importance" \notin SentDoc.keys) => call.result.importance = "medium"
        /\ (RemoteAnswered /\ "source" \notin SentDoc.keys) => call.result.source = call.source

\* A record of the request worker w handles, with its source and its payload.
RowHolds(w) ==
    \E i \in RowsOf(th[w].req) :
        db[i].source = th[w].source /\ db[i].parsed_data = th[w].data
FileHolds(w) ==
    \E n \in FilesOf(th[w].req) :
        /\ files[n].written = "full"
        /\ files[n].source = th[w].source
        /\ files[n].parsed_data = th[w].data

\* C25: when an ingestion handler is about to return its success response, a
\* record of that request with its source and parsed payload is in the table
\* or in the record files, on the normal path and on the fallback path.
C25_RecordBeforeSuccess ==
    \A w \in DOMAIN th :
        (Ingest(w) /\ th[w].pc = "respond") => (RowHolds(w) \/ FileHolds(w))

\* What a request leaves in the stores, without what names the request or the
\* instant: the row id, the timestamps and the request number.
RowFields(row) ==
    [source |-> row.source, parsed_data |-> row.parsed_data, ai_analysis |-> row.ai_analysis,
     importance |-> row.importance, forward_status |-> row.forward_status]
FileFields(name, record) ==
    [name |-> name[1], source |-> record.source, parsed_data |-> record.parsed_data,
     ai_analysis |-> record.ai_analysis, written |-> record.written]
Left(r) ==
    [rows |-> {RowFields(db[i]) : i \in RowsOf(r)},
     files |-> {FileFields(n, files[n]) : n \in FilesOf(r)}]
Outcome(w) ==
    [code |-> th[w].resp.code, success |-> th[w].resp.success, error |-> th[w].resp.error,
     ai_analysis |-> th[w].resp.ai_analysis, forward_status |-> th[w].resp.forward_status,
     source |-> th[w].source, analysis |-> th[w].analysis, remote |-> th[w].remote,
     fellBack |-> th[w].fellBack, importance |-> th[w].importance,
     forward_result |-> th[w].forward_result, trace |-> th[w].trace]

====
